---- MODULE Spec2Model ----
(***************************************************************************)
(* Model of the MOSIP OCR backend: the fuzzy field verifier                *)
(* (backend/verifier.py), the verification endpoints (backend/app.py) and  *)
(* the extraction pipeline (backend/ocr_engine.py).                        *)
(*                                                                         *)
(* Python strings are sequences of one-character strings.  A Python value  *)
(* handed to the verifier is a record [t, s]: t = "str" with the string s, *)
(* or t = "none" for None.  A score is kept in hundredths of a point, so   *)
(* the Python float 85.71 is the integer 8571 and 100 is 10000.            *)
(***************************************************************************)
EXTENDS Integers, Sequences, FiniteSets, TLC

VARIABLES
    request,            \* the last request body received by a verify endpoint
    response,           \* the value the endpoint returned for it
    pc,                 \* where the extraction is
    boxes,              \* the Detector's result list (sorted in place by the grouper)
    reads,              \* what the Recognizer does on the crop of each box
    lines,              \* the visual lines of boxes built by the grouper
    final_text_lines,   \* the line strings the grouper returns
    image,              \* what lies at image_path
    llm,                \* what the generative capability does with the prompt
    result,             \* the value extract_data / clean_with_ai returned
    calls               \* how often each capability and the fallback were invoked

vars == <<request, response, pc, boxes, reads, lines, final_text_lines,
          image, llm, result, calls>>

extraction == <<pc, boxes, reads, lines, final_text_lines, image, llm, result, calls>>

(***************************************************************************)
(* Bounds of the model.                                                    *)
(***************************************************************************)
MaxLen == 3             \* longest enumerated field value
MaxBoxes == 3           \* most boxes given to the line grouper
MaxCrops == 2           \* most boxes the Detector finds in a scanned page
MaxLines == 2           \* most recognized lines given to the schema mapper
MaxTokens == 3          \* longest enumerated answer of the capability

(***************************************************************************)
(* Python str helpers.                                                     *)
(***************************************************************************)
Min(a, b) == IF a <= b THEN a ELSE b

PyNone == [t |-> "none", s |-> <<>>]
PyStr(s) == [t |-> "str", s |-> s]

\* bool(v) is False: None and the empty string are falsy
Falsy(v) == v.t = "none" \/ v.s = <<>>

\* str(v): a string is itself, None prints as "None"
ToStr(v) == IF v.t = "none" THEN <<"N", "o", "n", "e">> ELSE v.s

LowerChar(c) ==
    CASE c = "A" -> "a"
      [] c = "B" -> "b"
      [] c = "H" -> "h"
      [] c = "J" -> "j"
      [] c = "N" -> "n"
      [] c = "O" -> "o"
      [] c = "S" -> "s"
      [] c = "M" -> "m"
      [] c = "I" -> "i"
      [] c = "T" -> "t"
      [] OTHER -> c

\* str.lower()
Lower(s) == [i \in 1..Len(s) |-> LowerChar(s[i])]

IsSpace(c) == c = " "

\* str.strip(): drop leading and trailing whitespace
Strip(s) ==
    LET keep == {i \in 1..Len(s) : ~IsSpace(s[i])}
    IN  IF keep = {} THEN <<>>
        ELSE LET lo == CHOOSE i \in keep : \A j \in keep : i <= j
                 hi == CHOOSE i \in keep : \A j \in keep : j <= i
             IN  SubSeq(s, lo, hi)

(***************************************************************************)
(* difflib.SequenceMatcher(None, a, b).ratio(), without junk (isjunk is    *)
(* None and the autojunk heuristic needs len(b) >= 200).  Indices are      *)
(* Python's: 0-based, half-open ranges.                                    *)
(***************************************************************************)
\* find_longest_match: the longest block a[i:i+k] == b[j:j+k] inside the
\* ranges; among the longest the one starting earliest in a, then in b;
\* <<alo, blo, 0>> when nothing matches.
FindLongestMatch(a, b, alo, ahi, blo, bhi) ==
    LET blocks == {t \in (alo..(ahi - 1)) \X (blo..(bhi - 1)) \X (1..Min(ahi - alo, bhi - blo)) :
                      /\ t[1] + t[3] <= ahi
                      /\ t[2] + t[3] <= bhi
                      /\ \A d \in 0..(t[3] - 1) : a[t[1] + d + 1] = b[t[2] + d + 1]}
        Better(t, u) == \/ t[3] > u[3]
                        \/ t[3] = u[3] /\ t[1] < u[1]
                        \/ t[3] = u[3] /\ t[1] = u[1] /\ t[2] <= u[2]
    IN  IF blocks = {} THEN <<alo, blo, 0>>
        ELSE CHOOSE t \in blocks : \A u \in blocks : Better(t, u)

\* get_matching_blocks, summed: the block found, then the pieces to its left
\* and to its right
RECURSIVE MatchedChars(_, _, _, _, _, _)
MatchedChars(a, b, alo, ahi, blo, bhi) ==
    LET m == FindLongestMatch(a, b, alo, ahi, blo, bhi)
        i == m[1]
        j == m[2]
        k == m[3]
    IN  IF k = 0 THEN 0
        ELSE k
             + (IF alo < i /\ blo < j
                   THEN MatchedChars(a, b, alo, i, blo, j) ELSE 0)
             + (IF i + k < ahi /\ j + k < bhi
                   THEN MatchedChars(a, b, i + k, ahi, j + k, bhi) ELSE 0)

\* round(n / d, 0) for n >= 0, d > 0: to nearest, ties to even
RoundDiv(n, d) ==
    LET q == n \div d
        r == n % d
    IN  IF 2 * r > d THEN q + 1
        ELSE IF 2 * r < d THEN q
        ELSE IF q % 2 = 0 THEN q ELSE q + 1

\* round(ratio() * 100, 2) in hundredths; ratio() is 2.0 * matches / length,
\* and 1.0 when both strings are empty
RatioScore(a, b) ==
    LET length == Len(a) + Len(b)
        matches == MatchedChars(a, b, 0, Len(a), 0, Len(b))
    IN  IF length = 0 THEN 10000
        ELSE RoundDiv(20000 * matches, length)

(***************************************************************************)
(* backend/verifier.py                                                     *)
(***************************************************************************)
calculate_similarity(extracted_text, user_input) ==
    IF Falsy(extracted_text) \/ Falsy(user_input) THEN 0
    ELSE LET clean_extracted == Strip(Lower(ToStr(extracted_text)))
             clean_input == Strip(Lower(ToStr(user_input)))
         IN  RatioScore(clean_extracted, clean_input)

\* the PARTIAL_MATCH bound taken inclusively
StatusOfInclusive(score) ==
    IF score = 10000 THEN "MATCH"
    ELSE IF score >= 8000 THEN "PARTIAL_MATCH"
    ELSE "MISMATCH"

StatusOf(score) ==
    IF score = 10000 THEN "MATCH"
    ELSE IF score > 8000 THEN "PARTIAL_MATCH"
    ELSE "MISMATCH"

verify_field(field_name, extracted_value, user_value) ==
    LET score == calculate_similarity(extracted_value, user_value)
    IN  [field |-> field_name,
         extracted |-> extracted_value,
         user_input |-> user_value,
         score |-> score,
         status |-> StatusOf(score)]

(***************************************************************************)
(* Inputs of the verification endpoints.                                   *)
(***************************************************************************)
Alphabet == {"a", "B", " "}

SeqsUpTo(S, n) == UNION {[1..k -> S] : k \in 0..n}

John == <<"J", "o", "h", "n">>
Jon == <<"J", "o", "n">>
JohnSmith == <<"J", "o", "h", "n", " ", "S", "m", "i", "t", "h">>
JOHNSMITH == <<"J", "O", "H", "N", " ", "S", "M", "I", "T", "H", " ">>
Thirty == <<"3", "0">>

FieldValues ==
    {PyNone} \cup {PyStr(s) : s \in SeqsUpTo(Alphabet, MaxLen)}
             \cup {PyStr(John), PyStr(Jon), PyStr(JohnSmith), PyStr(JOHNSMITH)}

FieldNames == {"Name", "Age", "name"}

FormValues == {PyNone, PyStr(<<>>), PyStr(John), PyStr(Jon), PyStr(Thirty)}

\* a JSON object: a function from the keys present to their values
Forms == UNION {[ks -> FormValues] : ks \in SUBSET FieldNames}

\* a lookup that ignores the case of the key
FoldKey(k) == IF k = "name" THEN "Name" ELSE k
DictGetAnyCase(d, key, default) ==
    IF \E k \in DOMAIN d : FoldKey(k) = FoldKey(key)
       THEN d[CHOOSE k \in DOMAIN d : FoldKey(k) = FoldKey(key)]
       ELSE default

\* dict.get(key, default)
DictGet(d, key, default) == IF key \in DOMAIN d THEN d[key] ELSE default

(***************************************************************************)
(* backend/app.py.  The handlers keep no state between requests, so a      *)
(* behaviour is one request: the server waits (endpoint "none"), then one  *)
(* handler runs on a request body and leaves its response.                 *)
(***************************************************************************)
InitVerify ==
    /\ request = [endpoint |-> "none"]
    /\ response = [endpoint |-> "none"]
    /\ pc = "unused"
    /\ boxes = <<>>
    /\ reads = <<>>
    /\ lines = <<>>
    /\ final_text_lines = <<>>
    /\ image = "none"
    /\ llm = [kind |-> "none"]
    /\ result = [none |-> TRUE]
    /\ calls = [recognizer |-> 0, llm |-> 0, fallback |-> 0]

\* POST /verify
verify_single_field ==
    /\ request.endpoint = "none"
    /\ \E extracted_text \in FieldValues \ {PyNone}, user_input \in FieldValues \ {PyNone} :
        /\ request' = [endpoint |-> "verify",
                       field_name |-> "Name",
                       extracted_text |-> extracted_text,
                       user_input |-> user_input]
        /\ UNCHANGED extraction
        /\ response' = [endpoint |-> "verify",
                        body |-> verify_field("Name", extracted_text, user_input)]

\* POST /verify-full
verify_full_form ==
    /\ request.endpoint = "none"
    /\ \E extracted_data \in Forms, user_input_data \in Forms :
        /\ request' = [endpoint |-> "verify-full",
                       extracted_data |-> extracted_data,
                       user_input_data |-> user_input_data]
        /\ UNCHANGED extraction
        /\ response' =
              [endpoint |-> "verify-full",
               body |-> [overall_status |-> "completed",
                         field_results |->
                            [key \in DOMAIN user_input_data |->
                                verify_field(key,
                                             DictGet(extracted_data, key, PyStr(<<>>)),
                                             user_input_data[key])]]]

NextVerify == verify_single_field \/ verify_full_form

SpecVerify == InitVerify /\ [][NextVerify]_vars

(***************************************************************************)
(* Properties of the verifier.                                             *)
(***************************************************************************)
\* the calls of verify_field behind the current response, each with the
\* values it was given and the result it returned
VerifyCalls ==
    IF response.endpoint = "verify"
       THEN {[extracted |-> request.extracted_text,
              user |-> request.user_input,
              result |-> response.body]}
    ELSE IF response.endpoint = "verify-full"
       THEN {[extracted |-> DictGet(request.extracted_data, key, PyStr(<<>>)),
              user |-> request.user_input_data[key],
              result |-> response.body.field_results[key]] :
                 key \in DOMAIN request.user_input_data}
    ELSE {}

IsEmptyOrNone(v) == v = PyNone \/ v = PyStr(<<>>)

\* C4: every result of verify_field carries exactly one status, fixed by the
\* score alone: MATCH iff the score is 100, PARTIAL_MATCH iff it lies strictly
\* between 80 and 100, MISMATCH iff it is at most 80; an empty or None value on
\* either side gives score 0.0 and MISMATCH; the extracted and user values
\* returned are the raw inputs.
C4_StatusFromScore ==
    \A c \in VerifyCalls :
        /\ c.result.status \in {"MATCH", "PARTIAL_MATCH", "MISMATCH"}
        /\ c.result.status = "MATCH" <=> c.result.score = 10000
        /\ c.result.status = "PARTIAL_MATCH" <=>
              (8000 < c.result.score /\ c.result.score < 10000)
        /\ c.result.status = "MISMATCH" <=> c.result.score <= 8000
        /\ (IsEmptyOrNone(c.extracted) \/ IsEmptyOrNone(c.user)) =>
              (c.result.score = 0 /\ c.result.status = "MISMATCH")
        /\ c.result.extracted = c.extracted
        /\ c.result.user_input = c.user

\* "Jon" against "John" has been verified: 85.71, a PARTIAL_MATCH, and the
\* raw values come back
C4_Witness ==
    /\ response.endpoint = "verify"
    /\ request.extracted_text = PyStr(Jon)
    /\ request.user_input = PyStr(John)
    /\ response.body.score = 8571
    /\ response.body.status = "PARTIAL_MATCH"

y_threshold == 20

Abs(n) == IF n < 0 THEN -n ELSE n

RECURSIVE SumLen(_)
SumLen(seqs) == IF seqs = <<>> THEN 0 ELSE Len(Head(seqs)) + SumLen(Tail(seqs))

RECURSIVE SumY(_)
SumY(line) == IF line = <<>> THEN 0 ELSE Head(line).y + SumY(Tail(line))

\* list.sort(key=...) is stable: an element goes behind the elements already
\* placed whose key is not larger
RECURSIVE InsertByY(_, _)
InsertByY(sorted, box) ==
    IF sorted = <<>> THEN <<box>>
    ELSE IF Head(sorted).y <= box.y
            THEN <<Head(sorted)>> \o InsertByY(Tail(sorted), box)
            ELSE <<box>> \o sorted

RECURSIVE SortByTopY(_)
SortByTopY(bs) ==
    IF bs = <<>> THEN <<>>
    ELSE InsertByY(SortByTopY(SubSeq(bs, 1, Len(bs) - 1)), bs[Len(bs)])

RECURSIVE InsertByX(_, _)
InsertByX(sorted, box) ==
    IF sorted = <<>> THEN <<box>>
    ELSE IF Head(sorted).x <= box.x
            THEN <<Head(sorted)>> \o InsertByX(Tail(sorted), box)
            ELSE <<box>> \o sorted

RECURSIVE SortByLeftX(_)
SortByLeftX(line) ==
    IF line = <<>> THEN <<>>
    ELSE InsertByX(SortByLeftX(SubSeq(line, 1, Len(line) - 1)), line[Len(line)])

\* the box is compared with the last box of the line, not with the average
OnCurrentLineByLastBox(box, current_line) ==
    Abs(box.y - current_line[Len(current_line)].y) < y_threshold

\* abs(box_y - avg_y) < y_threshold with avg_y = sum / len, both sides
\* multiplied by len(current_line) > 0
OnCurrentLine(box, current_line) ==
    Abs(box.y * Len(current_line) - SumY(current_line))
        < y_threshold * Len(current_line)

\* the loop over the sorted boxes and the closing of the last line
RECURSIVE GroupLoop(_, _, _)
GroupLoop(rest, done, current_line) ==
    IF rest = <<>>
       THEN IF current_line # <<>> THEN Append(done, current_line) ELSE done
    ELSE LET box == Head(rest)
         IN  IF current_line = <<>>
                THEN GroupLoop(Tail(rest), done, <<box>>)
             ELSE IF OnCurrentLine(box, current_line)
                THEN GroupLoop(Tail(rest), done, Append(current_line, box))
             ELSE GroupLoop(Tail(rest), Append(done, current_line), <<box>>)

\* the line is left in the order the boxes joined it
KeepLineOrder(line) == line

\* line.sort(key=lambda x: x[0][0][0])
SortLine(line) == SortByLeftX(line)

\* the lines of boxes after each was sorted left to right
BoxLines(sorted_boxes) ==
    LET grouped == GroupLoop(sorted_boxes, <<>>, <<>>)
    IN  [k \in 1..Len(grouped) |-> SortLine(grouped[k])]

\* trocr_read
trocr_read(outcome) ==
    IF outcome.raises THEN <<>> ELSE Strip(outcome.text)

\* sep.join(parts)
RECURSIVE Join(_, _)
Join(parts, sep) ==
    IF parts = <<>> THEN <<>>
    ELSE IF Len(parts) = 1 THEN parts[1]
    ELSE parts[1] \o sep \o Join(Tail(parts), sep)

\* the non-empty elements of a sequence, in order ("if text:", "if line_text:")
RECURSIVE DropEmpty(_)
DropEmpty(seq) ==
    IF seq = <<>> THEN <<>>
    ELSE IF Head(seq) # <<>> THEN <<Head(seq)>> \o DropEmpty(Tail(seq))
    ELSE DropEmpty(Tail(seq))

\* line_text of one line: the non-empty texts read from its crops, in order
LineText(line, rd) ==
    DropEmpty([n \in 1..Len(line) |-> trocr_read(rd[line[n].id])])

\* final_text_lines: the words of each line joined by a space, lines without
\* text left out
TextLines(box_lines, rd) ==
    LET texts == [k \in 1..Len(box_lines) |-> LineText(box_lines[k], rd)]
        kept == DropEmpty(texts)
    IN  [k \in 1..Len(kept) |-> Join(kept[k], <<" ">>)]

(***************************************************************************)
(* group_text_into_lines as a function of the boxes and of the             *)
(* Recognizer's outcomes.                                                  *)
(***************************************************************************)
YCoords == {100, 105, 120, 135, 140}
XCoords == {10, 50}

DetectionLists ==
    UNION {{[i \in 1..n |-> [id |-> i, x |-> p[i][1], y |-> p[i][2]]] :
               p \in [1..n -> XCoords \X YCoords]} : n \in 0..MaxBoxes}

\* the word read from the crop of box i, one per box
Word(i) == <<"w", CASE i = 1 -> "1" [] i = 2 -> "2" [] i = 3 -> "3"
                    [] i = 4 -> "4" [] OTHER -> "5">>

Raises == [raises |-> TRUE, text |-> <<>>]
Reads(text) == [raises |-> FALSE, text |-> text]

InitGroup ==
    /\ request = [endpoint |-> "none"]
    /\ response = [endpoint |-> "none"]
    /\ pc = "group"
    /\ boxes \in DetectionLists
    /\ reads \in {[i \in 1..Len(boxes) |->
                      IF i \in ok THEN Reads(<<" ">> \o Word(i)) ELSE Raises] :
                  ok \in SUBSET (1..Len(boxes))}
    /\ lines = <<>>
    /\ final_text_lines = <<>>
    /\ image = "decodable"
    /\ llm = [kind |-> "none"]
    /\ result = [none |-> TRUE]
    /\ calls = [recognizer |-> 0, llm |-> 0, fallback |-> 0]

\* one crop is read per box
group_text_into_lines ==
    /\ pc = "group"
    /\ boxes' = SortByTopY(boxes)
    /\ lines' = BoxLines(boxes')
    /\ final_text_lines' = TextLines(lines', reads)
    /\ calls' = [calls EXCEPT !.recognizer = @ + Len(boxes)]
    /\ pc' = "clean_with_ai"
    /\ UNCHANGED <<request, response, reads, image, llm, result>>

NextGroup == group_text_into_lines

SpecGroup == InitGroup /\ [][NextGroup]_vars

(***************************************************************************)
(* Properties of the line grouper.                                         *)
(***************************************************************************)
\* place in the sorted list of the first and last box of line k
LineStart(k) == 1 + SumLen(SubSeq(lines, 1, k - 1))
LineEnd(k) == SumLen(SubSeq(lines, 1, k))

\* box p differs from the average top-Y of boxes s..p-1 by less than the
\* threshold
NearAverage(p, s) ==
    Abs(boxes[p].y * (p - s) - SumY(SubSeq(boxes, s, p - 1)))
        < y_threshold * (p - s)

IdsOf(seq) == {seq[i].id : i \in 1..Len(seq)}

\* C1: the lines partition the boxes, taken in ascending top-Y order, into
\* contiguous runs with every box in exactly one line; a box joins the line
\* being accumulated iff its top-Y is less than 20 away from the running
\* average of the boxes already in it, and otherwise starts the next line.
C1_GroupingPartition ==
    pc = "clean_with_ai" =>
        /\ \A p \in 1..(Len(boxes) - 1) : boxes[p].y <= boxes[p + 1].y
        /\ IdsOf(boxes) = 1..Len(boxes)
        /\ SumLen(lines) = Len(boxes)
        /\ \A k \in 1..Len(lines) :
              /\ lines[k] # <<>>
              /\ IdsOf(lines[k]) = IdsOf(SubSeq(boxes, LineStart(k), LineEnd(k)))
              /\ \A p \in (LineStart(k) + 1)..LineEnd(k) : NearAverage(p, LineStart(k))
              /\ k > 1 => ~NearAverage(LineStart(k), LineStart(k - 1))

\* top-Y values 100, 105, 140 have been grouped into [100, 105] and [140]
C1_Witness ==
    /\ pc = "clean_with_ai"
    /\ [p \in 1..Len(boxes) |-> boxes[p].y] = <<100, 105, 140>>
    /\ Len(lines) = 2
    /\ {lines[1][n].y : n \in 1..Len(lines[1])} = {100, 105}
    /\ Len(lines[1]) = 2
    /\ [n \in 1..Len(lines[2]) |-> lines[2][n].y] = <<140>>

\* the words expected from a line of boxes: the word of each box whose crop
\* the Recognizer read, in the order of the line
WordsOf(line) ==
    LET read == SelectSeq(line, LAMBDA b : ~reads[b.id].raises)
    IN  [n \in 1..Len(read) |-> Word(read[n].id)]

\* C2: the lines are ordered top to bottom by their average top-Y, each later
\* line having a larger average than every earlier one; inside a line the
\* boxes are ordered by the X of their top-left point; the line strings keep
\* both orders.
C2_ReadingOrder ==
    pc = "clean_with_ai" =>
        /\ \A k \in 1..Len(lines) : \A l \in (k + 1)..Len(lines) :
              SumY(lines[k]) * Len(lines[l]) < SumY(lines[l]) * Len(lines[k])
        /\ \A k \in 1..Len(lines) : \A n \in 1..(Len(lines[k]) - 1) :
              lines[k][n].x <= lines[k][n + 1].x
        /\ LET texted == SelectSeq(lines, LAMBDA line : WordsOf(line) # <<>>)
           IN  /\ Len(final_text_lines) = Len(texted)
               /\ \A j \in 1..Len(texted) :
                     final_text_lines[j] = Join(WordsOf(texted[j]), <<" ">>)

\* two lines were built, the upper one from two boxes that the Detector
\* listed right to left, and both lines gave text
C2_Witness ==
    /\ pc = "clean_with_ai"
    /\ Len(lines) = 2
    /\ Len(lines[1]) = 2
    /\ lines[1][1].id > lines[1][2].id
    /\ lines[1][1].x < lines[1][2].x
    /\ Len(final_text_lines) = 2
    /\ final_text_lines[1] = Word(lines[1][1].id) \o <<" ">> \o Word(lines[1][2].id)

(***************************************************************************)
(* backend/ocr_engine.py: the schema mapper and its fallback.              *)
(*                                                                         *)
(* The text the capability answers with is a sequence of lexical tokens:   *)
(* "{", "}", ",", a member token such as "Name" (one "key": value member   *)
(* of a JSON object, whatever the value) and "text" (prose without         *)
(* braces).  What the capability does with a prompt is not decided by this *)
(* code: llm is its outcome, a content, an exception, or no answer at all. *)
(***************************************************************************)
SchemaKeys == {"Name", "Age", "Gender", "Address", "Email", "Phone"}
MemberTokens == SchemaKeys \cup {"Note"}

NoMatch == [found |-> FALSE, group |-> <<>>]

\* re.search(r'\{.*\}', content, re.DOTALL): from the first "{" that has a
\* "}" behind it to the last "}"
SearchObject(content) ==
    LET opens == {i \in 1..Len(content) : content[i] = "{"}
    IN  IF opens = {} THEN NoMatch
        ELSE LET first == CHOOSE i \in opens : \A j \in opens : i <= j
                 closes == {j \in (first + 1)..Len(content) : content[j] = "}"}
             IN  IF closes = {} THEN NoMatch
                 ELSE [found |-> TRUE,
                       group |-> SubSeq(content, first,
                                        CHOOSE j \in closes : \A l \in closes : l <= j)]

ParseError == [ok |-> FALSE, value |-> <<>>]
Parsed(keys) == [ok |-> TRUE, value |-> [k \in keys |-> "value"]]

\* the members of an object from position pos on: a member, then "}" at the
\* very end or "," and more members
RECURSIVE ParseMembers(_, _, _)
ParseMembers(toks, pos, keys) ==
    IF pos + 1 > Len(toks) \/ toks[pos] \notin MemberTokens THEN ParseError
    ELSE IF toks[pos + 1] = "}"
            THEN IF pos + 1 = Len(toks) THEN Parsed(keys \cup {toks[pos]})
                 ELSE ParseError
    ELSE IF toks[pos + 1] = ","
            THEN ParseMembers(toks, pos + 2, keys \cup {toks[pos]})
    ELSE ParseError

\* json.loads on a text that starts with "{"
json_loads(toks) ==
    IF Len(toks) < 2 \/ toks[1] # "{" THEN ParseError
    ELSE IF toks[2] = "}"
            THEN IF Len(toks) = 2 THEN Parsed({}) ELSE ParseError
    ELSE ParseMembers(toks, 2, {})

(***************************************************************************)
(* manual_fallback: the two regular expressions, matched as re.search      *)
(* does, at the leftmost position and greedily.                            *)
(***************************************************************************)
Letters == {"C", "o", "n", "t", "a", "c", "b", "m", "x", "y", "z"}
Digits == {"0", "1", "2", "3", "4", "5", "6", "7", "8", "9"}

\* \w
IsWordChar(c) == c \in Letters \cup Digits \cup {"_"}

\* [\w\.] : the class without the hyphen
InEmailClassNoHyphen(c) == IsWordChar(c) \/ c = "."

\* [\w\.-]
InEmailClass(c) == IsWordChar(c) \/ c \in {".", "-"}

\* [\d -]
InPhoneClass(c) == c \in Digits \cup {" ", "-"}

\* the last position of the run of [\w\.-] characters that starts at i,
\* i - 1 if s[i] is not one
RECURSIVE EmailRunEnd(_, _)
EmailRunEnd(s, i) ==
    IF i > Len(s) \/ ~InEmailClass(s[i]) THEN i - 1 ELSE EmailRunEnd(s, i + 1)

\* the same for [\d -]
RECURSIVE PhoneRunEnd(_, _)
PhoneRunEnd(s, i) ==
    IF i > Len(s) \/ ~InPhoneClass(s[i]) THEN i - 1 ELSE PhoneRunEnd(s, i + 1)

\* [\w\.-]+@[\w\.-]+ tried at position i: the end of the match, 0 if none
EmailMatchEnd(s, i) ==
    LET local_end == EmailRunEnd(s, i)
    IN  IF /\ local_end >= i
           /\ local_end + 2 <= Len(s)
           /\ s[local_end + 1] = "@"
           /\ InEmailClass(s[local_end + 2])
           THEN EmailRunEnd(s, local_end + 2)
           ELSE 0

\* \+?\d[\d -]{8,} tried at position i: the end of the match, 0 if none
PhoneMatchEnd(s, i) ==
    LET digit == IF s[i] = "+" THEN i + 1 ELSE i
        run_end == PhoneRunEnd(s, digit + 1)
    IN  IF /\ digit <= Len(s)
           /\ s[digit] \in Digits
           /\ run_end - digit >= 8
           THEN run_end
           ELSE 0

\* re.search tries the positions from left to right: the first position from
\* i on where the pattern matches, 0 if there is none
RECURSIVE EmailSearchFrom(_, _)
EmailSearchFrom(s, i) ==
    IF i > Len(s) THEN 0
    ELSE IF EmailMatchEnd(s, i) > 0 THEN i
    ELSE EmailSearchFrom(s, i + 1)

RECURSIVE PhoneSearchFrom(_, _)
PhoneSearchFrom(s, i) ==
    IF i > Len(s) THEN 0
    ELSE IF PhoneMatchEnd(s, i) > 0 THEN i
    ELSE PhoneSearchFrom(s, i + 1)

\* re.search(...).group(0) if re.search(...) else ""
SearchEmail(s) ==
    LET i == EmailSearchFrom(s, 1)
    IN  IF i = 0 THEN <<>> ELSE SubSeq(s, i, EmailMatchEnd(s, i))

SearchPhone(s) ==
    LET i == PhoneSearchFrom(s, 1)
    IN  IF i = 0 THEN <<>> ELSE SubSeq(s, i, PhoneMatchEnd(s, i))

FallbackName == "Extraction Failed (Check Ollama)"

\* text_blob is joined once, then searched
manual_fallback(text_lines) ==
    CHOOSE data \in {[Email |-> SearchEmail(text_blob),
                      Phone |-> SearchPhone(text_blob),
                      Name |-> FallbackName] :
                        text_blob \in {Join(text_lines, <<" ">>)}} : TRUE

(***************************************************************************)
(* clean_with_ai.  The prompt is built from the joined lines and handed to *)
(* ollama.chat, a blocking call without a timeout; the function goes on    *)
(* when the call returns a content or raises.                              *)
(***************************************************************************)
ContentTokens == {"{", "}", "Name"}

SixKeyObject ==
    <<"{", "Name", ",", "Age", ",", "Gender", ",", "Address", ",",
      "Email", ",", "Phone", "}">>

ContentSamples ==
    {SixKeyObject,
     <<"text">>,
     <<"text", "}", "{">>,
     <<"text">> \o SixKeyObject \o <<"text">>,
     <<"{", "Name", ",", "Note", "}">>,
     <<"{", "Name", "Age", "}">>,
     <<"{", "Name", ",", "}">>}

Contents == SeqsUpTo(ContentTokens, MaxTokens) \cup ContentSamples

LlmOutcomes ==
    {[kind |-> "raises", content |-> <<>>], [kind |-> "silent", content |-> <<>>]}
        \cup {[kind |-> "content", content |-> c] : c \in Contents}

\* response = ollama.chat(...)
clean_with_ai ==
    /\ pc = "clean_with_ai"
    /\ \E outcome \in LlmOutcomes : llm' = outcome
    /\ calls' = [calls EXCEPT !.llm = @ + 1]
    /\ pc' = "ollama_chat"
    /\ UNCHANGED <<request, response, boxes, reads, lines, final_text_lines,
                   image, result>>

\* the call returned: search the object, parse it, fall back if either fails
\* (match and parsed are each computed once)
clean_with_ai_content ==
    /\ pc = "ollama_chat"
    /\ llm.kind = "content"
    /\ pc' = "returned"
    /\ \E match \in {SearchObject(llm.content)} :
       \E parsed \in {json_loads(match.group)} :
           IF match.found /\ parsed.ok
              THEN /\ result' = parsed.value
                   /\ UNCHANGED calls
              ELSE /\ result' = manual_fallback(final_text_lines)
                   /\ calls' = [calls EXCEPT !.fallback = @ + 1]
    /\ UNCHANGED <<request, response, boxes, reads, lines, final_text_lines,
                   image, llm>>

\* the call raised: except Exception
clean_with_ai_except ==
    /\ pc = "ollama_chat"
    /\ llm.kind = "raises"
    /\ pc' = "returned"
    /\ calls' = [calls EXCEPT !.fallback = @ + 1]
    /\ result' = manual_fallback(final_text_lines)
    /\ UNCHANGED <<request, response, boxes, reads, lines, final_text_lines,
                   image, llm>>

(***************************************************************************)
(* clean_with_ai as a function of the recognized lines and of the          *)
(* capability's outcome.                                                   *)
(***************************************************************************)
Contact == <<"C", "o", "n", "t", "a", "c", "t", ":">>
MailAB == <<"a", "@", "b", ".", "c", "o", "m">>
Phone10 == <<"9", "8", "7", "6", "5", "4", "3", "2", "1", "0">>

ExampleLine == Contact \o <<" ">> \o MailAB \o <<" ">> \o Phone10

LineSamples ==
    {<<"x", "-", "y", "@", "z", ".", "c", "@", "b">>,
     <<"@", "b", " ", "a", "@">>,
     <<"b", ".", "c">>,
     <<"+", "9", "1", " ", "9", "8", "7", "-", "6", "5", " ">>,
     <<"+", "+", "1", "2", "3", "4">>,
     <<"5", "6", "7", "8">>}

LineLists == SeqsUpTo(LineSamples, MaxLines) \cup {<<ExampleLine>>}

InitMap ==
    /\ request = [endpoint |-> "none"]
    /\ response = [endpoint |-> "none"]
    /\ pc = "clean_with_ai"
    /\ boxes = <<>>
    /\ reads = <<>>
    /\ lines = <<>>
    /\ final_text_lines \in LineLists
    /\ image = "decodable"
    /\ llm = [kind |-> "none"]
    /\ result = [none |-> TRUE]
    /\ calls = [recognizer |-> 0, llm |-> 0, fallback |-> 0]

NextMap == clean_with_ai \/ clean_with_ai_content \/ clean_with_ai_except

SpecMap == InitMap /\ [][NextMap]_vars

\* every step the code can take is taken
SpecMapLive == SpecMap /\ WF_vars(NextMap)

(***************************************************************************)
(* Properties of the schema mapper.                                        *)
(***************************************************************************)
\* the answer holds a "{" with a "}" somewhere behind it
HasObjectSubstring(content) ==
    \E i \in 1..Len(content) : \E j \in (i + 1)..Len(content) :
        content[i] = "{" /\ content[j] = "}"

\* the answer from its first "{" to its last "}"
ObjectSubstring(content) ==
    LET i == CHOOSE i \in 1..Len(content) :
                 content[i] = "{" /\ \A l \in 1..(i - 1) : content[l] # "{"
        j == CHOOSE j \in 1..Len(content) :
                 content[j] = "}" /\ \A l \in (j + 1)..Len(content) : content[l] # "}"
    IN  SubSeq(content, i, j)

\* the text of a JSON object: braces around members separated by commas
IsObjectText(toks) ==
    /\ Len(toks) >= 2
    /\ toks[1] = "{"
    /\ toks[Len(toks)] = "}"
    /\ Len(toks) > 2 => Len(toks) % 2 = 1
    /\ \A i \in 2..(Len(toks) - 1) :
          IF i % 2 = 0 THEN toks[i] \in MemberTokens ELSE toks[i] = ","

\* the three ways the mapping fails
MappingFailed ==
    \/ llm.kind = "raises"
    \/ /\ llm.kind = "content"
       /\ \/ ~HasObjectSubstring(llm.content)
          \/ ~IsObjectText(ObjectSubstring(llm.content))

EmailChars == Letters \cup Digits \cup {"_", ".", "-"}
PhoneChars == Digits \cup {" ", "-"}

\* local-part@domain over alphanumerics, dots, hyphens and underscores
IsEmailText(w) ==
    /\ Cardinality({k \in 1..Len(w) : w[k] = "@"}) = 1
    /\ w[1] # "@"
    /\ w[Len(w)] # "@"
    /\ \A i \in 1..Len(w) : w[i] \in EmailChars \cup {"@"}

\* an optional "+", a digit, then at least 8 digits, spaces or hyphens
IsPhoneText(w) ==
    LET body == IF w[1] = "+" THEN Tail(w) ELSE w
    IN  /\ Len(body) >= 9
        /\ body[1] \in Digits
        /\ \A i \in 2..Len(body) : body[i] \in PhoneChars

\* the first of the spans <<start, end>> of s: the leftmost start, and from
\* there as far as it goes; "" without a span
FirstOf(s, spans) ==
    IF spans = {} THEN <<>>
    ELSE LET sp == CHOOSE sp \in spans : \A other \in spans :
                       \/ sp[1] < other[1]
                       \/ sp[1] = other[1] /\ sp[2] >= other[2]
         IN  SubSeq(s, sp[1], sp[2])

FirstEmail(s) ==
    FirstOf(s, {sp \in (1..Len(s)) \X (1..Len(s)) :
                   sp[1] <= sp[2] /\ IsEmailText(SubSeq(s, sp[1], sp[2]))})

FirstPhone(s) ==
    FirstOf(s, {sp \in (1..Len(s)) \X (1..Len(s)) :
                   sp[1] <= sp[2] /\ IsPhoneText(SubSeq(s, sp[1], sp[2]))})

\* C3: when the mapping fails (the call raises, the answer has no "{...}"
\* substring, or that substring is no JSON), clean_with_ai has called the
\* capability once and returns the fallback record: Name is the sentinel,
\* Email the first email match in the joined lines or "", Phone the first
\* phone match or "".
C3_FailureFallsBack ==
    (pc = "returned" /\ MappingFailed) =>
        /\ calls.llm = 1
        /\ calls.fallback = 1
        /\ DOMAIN result = {"Name", "Email", "Phone"}
        /\ result.Name = FallbackName
        /\ result.Email = FirstEmail(Join(final_text_lines, <<" ">>))
        /\ result.Phone = FirstPhone(Join(final_text_lines, <<" ">>))

\* lines = ["Contact: a@b.com 9876543210"] and a call that raised gave
\* Email "a@b.com" and Phone "9876543210"
C3_Witness ==
    /\ pc = "returned"
    /\ llm.kind = "raises"
    /\ final_text_lines = <<ExampleLine>>
    /\ result.Name = FallbackName
    /\ result.Email = MailAB
    /\ result.Phone = Phone10

\* C8: a request waiting for the capability eventually returns, also when the
\* capability never answers.
C8_MapperReturns == (pc = "ollama_chat") ~> (pc = "returned")

\* C9: a mapping that did not fall back returns a record with all six keys.
C9_SixKeysPresent ==
    (pc = "returned" /\ llm.kind = "content" /\ calls.fallback = 0) =>
        SchemaKeys \subseteq DOMAIN result

(***************************************************************************)
(* extract_data: the pipeline from the image path to the record.           *)
(*                                                                         *)
(* image is what lies at image_path: nothing ("missing"), a file that      *)
(* cv2.imread cannot decode ("undecodable": it returns None, and           *)
(* cv2.fastNlMeansDenoisingColored raises on None), or an image.  No       *)
(* statement of extract_data or of its caller catches an exception, so an  *)
(* exception ends the call in pc = "raised".                               *)
(***************************************************************************)
ArtifactTokens ==
    {<<"|">>, <<"]">>, <<"[">>, <<"1", "|">>, <<"|", "1">>, <<"I">>}

RecognizerOutcomes ==
    {Raises, Reads(<<" ", "I", " ">>), Reads(<<"N", "a", "m", "e">>)}

ScanPoints == {<<10, 100>>, <<50, 100>>, <<10, 140>>}

ScannedLists ==
    UNION {{[i \in 1..n |-> [id |-> i, x |-> p[i][1], y |-> p[i][2]]] :
               p \in [1..n -> ScanPoints]} : n \in 0..MaxCrops}

\* the check for an empty detection is left out
NoBoxesUnchecked(bs) == FALSE

\* if not boxes
NoBoxes(bs) == bs = <<>>

InitExtract ==
    /\ request = [endpoint |-> "none"]
    /\ response = [endpoint |-> "none"]
    /\ pc = "extract_data"
    /\ image \in {"missing", "undecodable", "decodable"}
    /\ boxes = <<>>
    /\ reads = <<>>
    /\ lines = <<>>
    /\ final_text_lines = <<>>
    /\ llm = [kind |-> "none"]
    /\ result = [none |-> TRUE]
    /\ calls = [recognizer |-> 0, llm |-> 0, fallback |-> 0]

\* if not os.path.exists(image_path)
extract_data ==
    /\ pc = "extract_data"
    /\ IF image = "missing"
          THEN /\ result' = [error |-> "File not found"]
               /\ pc' = "returned"
          ELSE /\ pc' = "preprocess_image"
               /\ UNCHANGED result
    /\ UNCHANGED <<request, response, boxes, reads, lines, final_text_lines,
                   image, llm, calls>>

preprocess_image ==
    /\ pc = "preprocess_image"
    /\ pc' = IF image = "undecodable" THEN "raised" ELSE "readtext"
    /\ UNCHANGED <<request, response, boxes, reads, lines, final_text_lines,
                   image, llm, result, calls>>

\* boxes = self.detector.readtext(...), and "if not boxes"; the page also
\* fixes what the Recognizer will make of each crop
readtext ==
    /\ pc = "readtext"
    /\ \E bs \in ScannedLists :
          /\ boxes' = bs
          /\ reads' \in [1..Len(bs) -> RecognizerOutcomes]
          /\ IF NoBoxes(bs)
                THEN /\ result' = [error |-> "No text detected"]
                     /\ pc' = "returned"
                ELSE /\ pc' = "group"
                     /\ UNCHANGED result
    /\ UNCHANGED <<request, response, lines, final_text_lines, image, llm, calls>>

NextExtract ==
    \/ extract_data
    \/ preprocess_image
    \/ readtext
    \/ group_text_into_lines
    \/ clean_with_ai
    \/ clean_with_ai_content
    \/ clean_with_ai_except

SpecExtract == InitExtract /\ [][NextExtract]_vars

(***************************************************************************)
(* Properties of the pipeline.                                             *)
(***************************************************************************)
IsError(r, reason) == DOMAIN r = {"error"} /\ r.error = reason

\* the words of a line: its maximal runs without a space
WordsIn(s) ==
    {SubSeq(s, sp[1], sp[2]) : sp \in
        {sp \in (1..Len(s)) \X (1..Len(s)) :
            /\ sp[1] <= sp[2]
            /\ \A i \in sp[1]..sp[2] : s[i] # " "
            /\ sp[1] = 1 \/ s[sp[1] - 1] = " "
            /\ sp[2] = Len(s) \/ s[sp[2] + 1] = " "}}

\* C6: for a file that cannot be decoded the call ends by returning
\* {error: reason}, not by an exception, and neither detection nor grouping
\* nor mapping has run.
C6_DecodeErrorReported ==
    (image = "undecodable" /\ pc \notin {"extract_data", "preprocess_image"}) =>
        /\ pc = "returned"
        /\ DOMAIN result = {"error"}
        /\ boxes = <<>>
        /\ calls = [recognizer |-> 0, llm |-> 0, fallback |-> 0]

\* C7: a text that is, trimmed, one of the artifact tokens is read as empty,
\* so no word of an output line is an artifact token.
C7_ArtifactsSuppressed ==
    \A k \in 1..Len(final_text_lines) :
        WordsIn(final_text_lines[k]) \cap ArtifactTokens = {}

====
